---- MODULE Spec2Model ----
(***************************************************************************)
(* dgw: PostgreSQL catalog introspection -> type mapping -> templated Go   *)
(* struct emission (src/dgw.go).  PgCreateStruct is modelled as a          *)
(* sequential state machine; the query executor (Queryer / sql.Rows) is    *)
(* the environment and may fail at every call.                             *)
(***************************************************************************)
EXTENDS Integers, Sequences, FiniteSets, TLC

(***************************************************************************)
(* Bounds of the model.                                                    *)
(***************************************************************************)
\* largest number of rows the table-list query returns
MaxTables == 2

(***************************************************************************)
(* Strings.  A raw database type name is an atom; sort.Strings orders      *)
(* atoms bytewise, which for the names used here is the order below.       *)
(* Identifiers (table, column, Go names) are sequences of one-character    *)
(* strings, Go types sequences of tokens, so that the conversions applied  *)
(* to them are computed.                                                   *)
(***************************************************************************)
DBTypeOrder == <<"bigint", "bpchar", "text", "uuid">>

DBTypeNames == {DBTypeOrder[i] : i \in DOMAIN DBTypeOrder}

Rank(s) == CHOOSE i \in DOMAIN DBTypeOrder : DBTypeOrder[i] = s

\* Go's string comparison a < b
StrLess(a, b) == Rank(a) < Rank(b)

SeqToSet(s) == {s[i] : i \in DOMAIN s}

RECURSIVE InsertSorted(_, _)
InsertSorted(x, l) ==
    IF l = <<>> THEN <<x>>
    ELSE IF StrLess(Head(l), x) THEN <<Head(l)>> \o InsertSorted(x, Tail(l))
    ELSE <<x>> \o l

\* sort.Strings(l): l in increasing order
RECURSIVE SortStrings(_)
SortStrings(l) ==
    IF l = <<>> THEN <<>> ELSE InsertSorted(Head(l), SortStrings(Tail(l)))

\* sort.Search over [i, j): i, j := 0, n; for i < j { h := (i+j)/2; if !f(h) { i = h+1 } else { j = h } }
\* with f(h) = l[h] >= v.  Indices are Go's (0-based); l[h] is l[h+1] here.
RECURSIVE SearchFrom(_, _, _, _)
SearchFrom(l, v, i, j) ==
    IF i < j
    THEN LET h == (i + j) \div 2
         IN  IF StrLess(l[h + 1], v)
             THEN SearchFrom(l, v, h + 1, j)
             ELSE SearchFrom(l, v, i, h)
    ELSE i

\* sort.SearchStrings(l, v)
SearchStrings(l, v) == SearchFrom(l, v, 0, Len(l))

\* contains without its sort.Strings call: binary search of the list as written
ContainsUnsorted(v, l) ==
    LET i == SearchStrings(l, v)
    IN  i < Len(l) /\ l[i + 1] = v

\* contains(v, l): sorts l in place, then binary search
contains(v, l) ==
    LET s == SortStrings(l)
        i == SearchStrings(s, v)
    IN  i < Len(s) /\ s[i + 1] = v

(***************************************************************************)
(* Type map configuration.                                                 *)
(***************************************************************************)
\* Go types, as token sequences
GoInt64      == <<"int64">>
GoString     == <<"string">>
GoNullString == <<"sql", ".", "NullString">>
GoNullInt64  == <<"sql", ".", "NullInt64">>
GoIface      == <<"interface{}">>
GoPtrIface   == <<"*", "interface{}">>
GoSendChan   == <<"chan", "<", "-", "int">>

\* TypeMap
TypeMap(dbTypes, nnType, nnNil, nuType, nuNil) ==
    [DBTypes |-> dbTypes, NotNullGoType |-> nnType, NotNullNilValue |-> nnNil,
     NullableGoType |-> nuType, NullableNilValue |-> nuNil]

\* the zero value of TypeMap: what cfg["default"] is when the key is absent
ZeroTypeMap == TypeMap(<<>>, <<>>, "", <<>>, "")

\* candidate rules of the configuration document, by rule name
RuleVariants(name) ==
    CASE name = "default" ->
           { TypeMap(<<>>, GoIface, "nil", GoPtrIface, "null"),
             TypeMap(<<"uuid", "bigint">>, GoInt64, "0", GoNullInt64, "sql.NullInt64{}") }
      [] name = "string" ->
           { TypeMap(<<"text", "bpchar">>, GoString, "\"\"", GoNullString, "sql.NullString{}") }
      [] name = "chan" ->
           { TypeMap(<<"text">>, GoSendChan, "nil", GoSendChan, "nil") }

RuleNames == {"default", "string", "chan"}

\* PgTypeMapConfig: map[string]TypeMap
PgTypeMapConfig ==
    UNION { { c \in [S -> UNION {RuleVariants(n) : n \in S}] :
                \A n \in S : c[n] \in RuleVariants(n) } : S \in SUBSET RuleNames }

\* cfg[name] of a Go map: the zero value when the key is absent
MapGet(cfg, name) == IF name \in DOMAIN cfg THEN cfg[name] ELSE ZeroTypeMap

\* the orders in which `for _, v := range cfg` may visit the rules
RangeOrders(cfg) ==
    { o \in [1..Cardinality(DOMAIN cfg) -> DOMAIN cfg] :
        \A i, j \in DOMAIN o : i # j => o[i] # o[j] }

\* index of the first rule in visiting order o whose DBTypes contain typ; 0 if none
FirstMatch(cfg, o, typ) ==
    IF \E i \in DOMAIN o : contains(typ, cfg[o[i]].DBTypes)
    THEN CHOOSE i \in DOMAIN o :
            /\ contains(typ, cfg[o[i]].DBTypes)
            /\ \A k \in 1..(i - 1) : ~contains(typ, cfg[o[k]].DBTypes)
    ELSE 0

\* PgConvertType with the fallback pair read from the first rule visited
\* instead of cfg["default"]
PgConvertTypeFirstRule(col, cfg, o) ==
    LET m == FirstMatch(cfg, o, col.DataType)
        d == IF Len(o) > 0 THEN cfg[o[1]] ELSE ZeroTypeMap
    IN  IF m = 0 THEN <<d.NotNullGoType, d.NotNullNilValue>>
        ELSE IF col.NotNull
             THEN <<cfg[o[m]].NotNullGoType, cfg[o[m]].NotNullNilValue>>
             ELSE <<cfg[o[m]].NullableGoType, cfg[o[m]].NullableNilValue>>

\* PgConvertType with the fallback honouring col.NotNull
PgConvertTypeNullableFallback(col, cfg, o) ==
    LET m == FirstMatch(cfg, o, col.DataType)
        v == IF m = 0 THEN MapGet(cfg, "default") ELSE cfg[o[m]]
    IN  IF col.NotNull
        THEN <<v.NotNullGoType, v.NotNullNilValue>>
        ELSE <<v.NullableGoType, v.NullableNilValue>>

\* PgConvertType(col, typeCfg) when the range loop visits the rules in order o:
\* the pair <<Go type, nil value>>
PgConvertType(col, cfg, o) ==
    LET typ    == MapGet(cfg, "default").NotNullGoType
        nilVal == MapGet(cfg, "default").NotNullNilValue
        m      == FirstMatch(cfg, o, col.DataType)
    IN  IF m # 0
        THEN IF col.NotNull
             THEN <<cfg[o[m]].NotNullGoType, cfg[o[m]].NotNullNilValue>>
             ELSE <<cfg[o[m]].NullableGoType, cfg[o[m]].NullableNilValue>>
        ELSE <<typ, nilVal>>

\* the configuration after PgConvertType: contains() has sorted, in place, the
\* DBTypes of every rule the loop visited (all of them when nothing matched)
SortVisited(cfg, o, typ) ==
    LET m    == FirstMatch(cfg, o, typ)
        last == IF m = 0 THEN Len(o) ELSE m
        seen == {o[i] : i \in 1..last}
    IN  [n \in DOMAIN cfg |->
            IF n \in seen
            THEN [cfg[n] EXCEPT !.DBTypes = SortStrings(cfg[n].DBTypes)]
            ELSE cfg[n]]

(***************************************************************************)
(* Identifiers.  varfmt.PublicVarName (github.com/achiku/varfmt, called at *)
(* dgw.go:184 and :201) is golint's lintName with the first word           *)
(* capitalised too: leading underscores are dropped, the name is split on  *)
(* underscores, each word is capitalised or, if a common initialism,       *)
(* upper-cased, and every rune that may not appear in a Go identifier is    *)
(* replaced by '_'.  Modelled for names of lower-case letters and           *)
(* underscores.                                                             *)
(***************************************************************************)
LowerLetters == <<"a", "d", "e", "i", "m", "n", "s", "t", "u", "v">>
UpperLetters == <<"A", "D", "E", "I", "M", "N", "S", "T", "U", "V">>

IsLower(c) == \E i \in DOMAIN LowerLetters : LowerLetters[i] = c
IsLetter(c) == IsLower(c) \/ \E i \in DOMAIN UpperLetters : UpperLetters[i] = c

ToUpper(c) ==
    IF IsLower(c)
    THEN UpperLetters[CHOOSE i \in DOMAIN LowerLetters : LowerLetters[i] = c]
    ELSE c

UpperWord(w) == [i \in DOMAIN w |-> ToUpper(w[i])]

commonInitialisms == { <<"I", "D">>, <<"U", "U", "I", "D">> }

\* one word of the name: an initialism is upper-cased, any other word capitalised
LintWord(w) ==
    IF UpperWord(w) \in commonInitialisms THEN UpperWord(w)
    ELSE [i \in DOMAIN w |-> IF i = 1 THEN ToUpper(w[i]) ELSE w[i]]

\* the name with its words linted and the underscores between them removed
RECURSIVE LintFrom(_, _)
LintFrom(name, word) ==
    IF name = <<>> THEN (IF word = <<>> THEN <<>> ELSE LintWord(word))
    ELSE IF Head(name) = "_"
         THEN (IF word = <<>> THEN <<>> ELSE LintWord(word)) \o LintFrom(Tail(name), <<>>)
         ELSE LintFrom(Tail(name), Append(word, Head(name)))

\* the final pass of PublicVarName: a rune that is no letter becomes '_'
Sanitize(name) == [i \in DOMAIN name |-> IF IsLetter(name[i]) THEN name[i] ELSE "_"]

\* a name with nothing but underscores in it (and not the one-rune name "_")
EmptyStem(name) == name # <<"_">> /\ \A i \in DOMAIN name : name[i] = "_"

\* the outcomes of varfmt.PublicVarName(name): [panic, name].  On an empty stem
\* the library indexes the first rune of an empty string or returns the empty
\* name; which of the two is left open.
PublicVarName(name) ==
    IF name = <<"_">> THEN {[panic |-> FALSE, name |-> <<"_">>]}
    ELSE IF EmptyStem(name)
         THEN {[panic |-> TRUE, name |-> <<>>], [panic |-> FALSE, name |-> <<>>]}
         ELSE {[panic |-> FALSE, name |-> Sanitize(LintFrom(name, <<>>))]}

\* a Go identifier: a letter or '_' followed by letters and '_'
ValidIdent(name) ==
    /\ name # <<>>
    /\ \A i \in DOMAIN name : IsLetter(name[i]) \/ name[i] = "_"

(***************************************************************************)
(* The system catalog of the database the executor queries.                *)
(***************************************************************************)
NameT  == <<"t">>
NameUA == <<"u", "_", "a">>
NameUU == <<"_", "_">>
NameV  == <<"v">>

Attr(num, name, typ, notnull, dropped) ==
    [attnum |-> num, attname |-> name, typ |-> typ, attnotnull |-> notnull,
     attisdropped |-> dropped]

\* pg_attribute rows of a relation: user columns have attnum > 0, system
\* columns attnum < 0, a dropped column keeps its row with attisdropped set
Attributes(rel) ==
    CASE rel = NameT ->
           { Attr(-1, <<"c", "t", "i", "d">>, "tid", TRUE, FALSE),
             Attr(1, <<"i", "d">>, "text", TRUE, FALSE),
             Attr(2, <<"n", "_", "s">>, "bigint", FALSE, FALSE),
             Attr(3, <<"d", "d">>, "text", FALSE, TRUE) }
      [] rel = NameUA ->
           { Attr(1, <<"i", "d">>, "uuid", TRUE, FALSE),
             Attr(2, <<"e", "m">>, "text", TRUE, FALSE),
             Attr(3, <<"_", "_">>, "text", TRUE, FALSE) }
      [] rel = NameUU ->
           { Attr(1, <<"i", "d">>, "uuid", TRUE, FALSE) }
      [] OTHER -> {}

\* pg_class rows of the schema: ordinary tables ('r') and a view ('v')
PgClassRows ==
    { [relkind |-> "r", relname |-> NameT], [relkind |-> "r", relname |-> NameUA],
      [relkind |-> "r", relname |-> NameUU], [relkind |-> "v", relname |-> NameV] }

Injective(s) == \A i, j \in DOMAIN s : i # j => s[i] # s[j]

\* the orders in which pg_class may hold up to MaxTables of those rows
PgClassStates ==
    UNION { { s \in [1..n -> PgClassRows] : Injective(s) } : n \in 0..MaxTables }

Con(contype, conkey) == [contype |-> contype, conkey |-> conkey]

\* the constraints declared on a table, by attnum: primary key 'p' (at most
\* one per table), unique 'u', foreign key 'f'
ConstraintSets ==
    { {},
      {Con("p", {1}), Con("u", {2})},
      {Con("p", {1, 2})},
      {Con("p", {1, 2}), Con("u", {2})},
      {Con("u", {1}), Con("f", {1})} }

LiveAttnums(rel) == {a.attnum : a \in {b \in Attributes(rel) : ~b.attisdropped}}

\* pg_constraint rows of a relation: a constraint exists only over live columns
Constraints(cons, rel) == {ct \in cons : ct.conkey \subseteq LiveAttnums(rel)}

NoCon == Con("", {})

\* the rows of pgLoadColumnDef before ORDER BY: pg_attribute LEFT JOIN
\* pg_constraint (contype IN ('p','u'), attnum = ANY(conkey)), WHERE not
\* dropped and attnum > 0.  An attribute with no matching constraint keeps one
\* row with a NULL constraint.
JoinRows(cons, rel) ==
    LET attrs == {a \in Attributes(rel) : ~a.attisdropped /\ a.attnum > 0}
        Match(a) == {ct \in Constraints(cons, rel) :
                        a.attnum \in ct.conkey /\ ct.contype \in {"p", "u"}}
    IN  UNION { IF Match(a) = {} THEN {<<a, NoCon>>}
                ELSE {<<a, ct>> : ct \in Match(a)} : a \in attrs }

\* PgColumn scanned from one row; COALESCE(ct.contype = 'p', false)
PgColumn(row) ==
    [FieldOrdinal |-> row[1].attnum, Name |-> row[1].attname,
     DataType |-> row[1].typ, NotNull |-> row[1].attnotnull,
     IsPrimaryKey |-> (row[2].contype = "p")]

\* the result sets pgLoadColumnDef may produce: the join rows ORDER BY attnum,
\* rows of one attnum in any order
ColumnResultSets(cons, rel) ==
    LET rows == JoinRows(cons, rel)
        n    == Cardinality(rows)
    IN  { s \in [1..n -> rows] :
            /\ Injective(s)
            /\ \A i, j \in 1..n : i < j => s[i][1].attnum <= s[j][1].attnum }

\* the result set of pgLoadTableDef: the pg_class rows with relkind = 'r',
\* in catalog order (the query has no ORDER BY)
TableResultSet(pgc) == SelectSeq(pgc, LAMBDA r : r.relkind = "r")

(***************************************************************************)
(* Catalog Loader.                                                         *)
(***************************************************************************)
\* what the executor may do to one run of PgLoadColumnDef over a result set of
\* n rows: nothing, fail db.Query, fail the Scan of row `at`, or have
\* colDefs.Next() report false after `at` rows because of an error
Faults(n) ==
    {[kind |-> "none", at |-> 0], [kind |-> "query", at |-> 0]}
    \cup {[kind |-> "scan", at |-> k] : k \in 1..n}
    \cup {[kind |-> "next", at |-> k] : k \in 0..n}

\* PgLoadColumnDef(db, schema, table) over result set rs: [cols, err]
PgLoadColumnDef(rs, fault) ==
    CASE fault.kind = "query" -> [cols |-> <<>>, err |-> "query"]
      [] fault.kind = "scan"  -> [cols |-> <<>>, err |-> "scan"]
      [] fault.kind = "next"  -> [cols |-> [i \in 1..fault.at |-> PgColumn(rs[i])], err |-> "nil"]
      [] OTHER                -> [cols |-> [i \in 1..Len(rs) |-> PgColumn(rs[i])], err |-> "nil"]

\* PgTable
PgTable(schema, row, cols) ==
    [Schema |-> schema, Name |-> row.relname, DataType |-> row.relkind, Columns |-> cols]

(***************************************************************************)
(* Struct/Field model and Template Renderer.                               *)
(***************************************************************************)
\* StructField
StructField(name, conv, col) ==
    [Name |-> name, Type |-> conv[1], NilVal |-> conv[2], Col |-> col]

\* fs = append(fs, f) with the field put first
PrependField(fs, f) == <<f>> \o fs

\* fs = append(fs, f)
AppendField(fs, f) == Append(fs, f)

\* src = append(src, s...) with the block put first
PrependSrc(out, s) == s \o out

\* src = append(src, s...)
AppendSrc(out, s) == out \o s

\* html/template's escaper for text context, one rune
EscapeRune(c) ==
    CASE c = "<"  -> "&lt;"
      [] c = ">"  -> "&gt;"
      [] c = "&"  -> "&amp;"
      [] c = "'"  -> "&#39;"
      [] c = "\"" -> "&#34;"
      [] c = "+"  -> "&#43;"
      [] OTHER    -> c

HTMLEscape(s) == [i \in DOMAIN s |-> EscapeRune(s[i])]

\* tpl.Execute(buf, st) over structTmpl: the lines written to buf
ExecuteTmpl(st) ==
    << [kind |-> "blank"],
       [kind |-> "comment", Name |-> HTMLEscape(st.Name), Schema |-> st.Schema,
        TableName |-> HTMLEscape(st.TableName)],
       [kind |-> "type", Name |-> HTMLEscape(st.Name)] >>
    \o [i \in DOMAIN st.Fields |->
          [kind |-> "field", Name |-> HTMLEscape(st.Fields[i].Name),
           Type |-> HTMLEscape(st.Fields[i].Type),
           Col |-> HTMLEscape(st.Fields[i].Col.Name), pad |-> 0]]
    \o << [kind |-> "close"] >>

\* Go types go/parser accepts in a field declaration
GoTypes == {GoInt64, GoString, GoNullString, GoNullInt64, GoIface, GoPtrIface, GoSendChan}

\* type names, which may stand alone as an embedded field
GoTypeNames == {GoInt64, GoString, GoNullString, GoNullInt64}

\* whether go/parser accepts the line
ValidLine(l) ==
    CASE l.kind = "type"  -> ValidIdent(l.Name)
      [] l.kind = "field" ->
           \/ l.Name = <<>> /\ l.Type = <<>>
           \/ l.Name = <<>> /\ l.Type \in GoTypeNames
           \/ ValidIdent(l.Name) /\ (l.Type = <<>> \/ l.Type \in GoTypes)
      [] OTHER -> TRUE

Max(S) == CHOOSE x \in S : \A y \in S : y <= x

\* format.Source(buf.Bytes()): an error when the text does not parse, else the
\* text with the field types of the struct aligned (leading space kept)
FormatSource(lines) ==
    IF \E i \in DOMAIN lines : ~ValidLine(lines[i])
    THEN [src |-> <<>>, err |-> "format"]
    ELSE LET w == Max({0} \cup {Len(lines[i].Name) : i \in {k \in DOMAIN lines : lines[k].kind = "field"}})
         IN  [src |-> [i \in DOMAIN lines |->
                         IF lines[i].kind = "field"
                         THEN [lines[i] EXCEPT !.pad = w - Len(lines[i].Name)]
                         ELSE lines[i]],
              err |-> "nil"]

\* PgExecuteStructTmpl(st): [src, err]
PgExecuteStructTmpl(st) == FormatSource(ExecuteTmpl(st))

(***************************************************************************)
(* State.                                                                  *)
(***************************************************************************)
VARIABLES
    pgClass,   \* catalog: the pg_class rows of the schema, in catalog order
    cons,      \* catalog: the constraints declared on each table
    cfg,       \* the type map (typeCfg); contains() sorts its lists in place
    pc,        \* where PgCreateStruct is
    tbPos,     \* rows of the table result set consumed so far
    tbs,       \* PgLoadTableDef: tbs
    dbErrs,    \* executor: the calls that have failed so far
    loadRet,   \* what PgLoadTableDef returned: [done, tbs, err]
    idx,       \* PgCreateStruct: index of tbl in `range tbls`
    st,        \* PgTableToStruct: s, with fs in st.Fields
    src,       \* PgCreateStruct: src
    ret,       \* what PgCreateStruct returned: [src, err]
    calls      \* the PgConvertType calls made so far: [col, conv]

vars == <<pgClass, cons, cfg, pc, tbPos, tbs, dbErrs, loadRet, idx, st, src, ret, calls>>

Schema == "public"

NoStruct == [Name |-> <<>>, TableName |-> <<>>, Schema |-> "", Fields |-> <<>>]

NoRet == [src |-> <<>>, err |-> "pending"]

Init ==
    /\ pgClass \in PgClassStates
    /\ cons \in ConstraintSets
    /\ cfg \in PgTypeMapConfig
    /\ pc = "start"
    /\ tbPos = 0
    /\ tbs = <<>>
    /\ dbErrs = {}
    /\ loadRet = [done |-> FALSE, tbs |-> <<>>, err |-> "pending"]
    /\ idx = 0
    /\ st = NoStruct
    /\ src = <<>>
    /\ ret = NoRet
    /\ calls = <<>>

catalog == <<pgClass, cons>>

\* PgCreateStruct returning (src, err) because PgLoadTableDef returned err
LoadFailed(err) ==
    /\ loadRet' = [done |-> TRUE, tbs |-> <<>>, err |-> err]
    /\ ret' = [src |-> src, err |-> "load"]
    /\ pc' = "done"

\* PgLoadTableDef: db.Query(pgLoadTableDef, schema)
LoadTableDefQuery ==
    /\ pc = "start"
    /\ \E ok \in BOOLEAN :
         IF ok
         THEN /\ pc' = "tables"
              /\ UNCHANGED <<dbErrs, loadRet, ret>>
         ELSE /\ dbErrs' = dbErrs \cup {"query"}
              /\ LoadFailed("query")
    /\ UNCHANGED <<catalog, cfg, tbPos, tbs, idx, st, src, calls>>

\* PgLoadTableDef: one round of the loop: tbDefs.Next() is true, Scan, then
\* PgLoadColumnDef for the table scanned
LoadTableDefRow ==
    /\ pc = "tables"
    /\ tbPos < Len(TableResultSet(pgClass))
    /\ LET row == TableResultSet(pgClass)[tbPos + 1]
       IN  \E scanOk \in BOOLEAN :
             IF ~scanOk
             THEN /\ dbErrs' = dbErrs \cup {"scan"}
                  /\ LoadFailed("scan")
                  /\ UNCHANGED <<tbPos, tbs>>
             ELSE \E rs \in ColumnResultSets(cons, row.relname) :
                  \E fault \in Faults(Len(rs)) :
                    LET r == PgLoadColumnDef(rs, fault)
                    IN  /\ dbErrs' = (IF fault.kind = "none" THEN dbErrs
                                      ELSE dbErrs \cup {fault.kind})
                        /\ IF r.err # "nil"
                           THEN /\ LoadFailed(r.err)
                                /\ UNCHANGED <<tbPos, tbs>>
                           ELSE /\ tbs' = Append(tbs, PgTable(Schema, row, r.cols))
                                /\ tbPos' = tbPos + 1
                                /\ UNCHANGED <<pc, loadRet, ret>>
    /\ UNCHANGED <<catalog, cfg, idx, st, src, calls>>

\* PgLoadTableDef: tbDefs.Next() is false, the rows being exhausted or (err)
\* the iteration having failed; the loop ends and tbs is returned
LoadTableDefEnd ==
    /\ pc = "tables"
    /\ \E err \in BOOLEAN :
         /\ ~err => tbPos = Len(TableResultSet(pgClass))
         /\ dbErrs' = (IF err THEN dbErrs \cup {"next"} ELSE dbErrs)
    /\ loadRet' = [done |-> TRUE, tbs |-> tbs, err |-> "nil"]
    /\ pc' = "decode"
    /\ UNCHANGED <<catalog, cfg, tbPos, tbs, idx, st, src, ret, calls>>

\* PgCreateStruct: toml.Decode / toml.DecodeFile of the type map
DecodeTypeMap ==
    /\ pc = "decode"
    /\ \E ok \in BOOLEAN :
         IF ok
         THEN /\ pc' = "convert"
              /\ idx' = 1
              /\ UNCHANGED ret
         ELSE /\ pc' = "done"
              /\ ret' = [src |-> src, err |-> "typemap"]
              /\ UNCHANGED idx
    /\ UNCHANGED <<catalog, cfg, tbPos, tbs, dbErrs, loadRet, st, src, calls>>

\* PgTableToStruct: s := &Struct{Name: varfmt.PublicVarName(t.Name), ...}
TableToStructBegin ==
    /\ pc = "convert"
    /\ idx <= Len(tbs)
    /\ \E n \in PublicVarName(tbs[idx].Name) :
         IF n.panic
         THEN pc' = "panic" /\ UNCHANGED st
         ELSE /\ pc' = "fields"
              /\ st' = [Name |-> n.name, TableName |-> tbs[idx].Name,
                        Schema |-> tbs[idx].Schema, Fields |-> <<>>]
    /\ UNCHANGED <<catalog, cfg, tbPos, tbs, dbErrs, loadRet, idx, src, ret, calls>>

\* PgTableToStruct: one round of `for _, c := range t.Columns`: PgColToField
\* (PublicVarName, PgConvertType) and fs = append(fs, f)
ColToField ==
    /\ pc = "fields"
    /\ Len(st.Fields) < Len(tbs[idx].Columns)
    /\ LET col == tbs[idx].Columns[Len(st.Fields) + 1]
       IN  \E n \in PublicVarName(col.Name) :
             IF n.panic
             THEN pc' = "panic" /\ UNCHANGED <<st, cfg, calls>>
             ELSE \E o \in RangeOrders(cfg) :
                    LET conv == PgConvertType(col, cfg, o)
                    IN  /\ st' = [st EXCEPT !.Fields = AppendField(@, StructField(n.name, conv, col))]
                        /\ cfg' = SortVisited(cfg, o, col.DataType)
                        /\ calls' = Append(calls, [col |-> col, conv |-> conv])
                        /\ UNCHANGED pc
    /\ UNCHANGED <<catalog, tbPos, tbs, dbErrs, loadRet, idx, src, ret>>

\* PgCreateStruct: PgTableToStruct has returned; PgExecuteStructTmpl(st) and
\* src = append(src, s...), or return src with the error
ExecuteStructTmpl ==
    /\ pc = "fields"
    /\ Len(st.Fields) = Len(tbs[idx].Columns)
    /\ LET r == PgExecuteStructTmpl(st)
       IN  IF r.err # "nil"
           THEN /\ ret' = [src |-> src, err |-> "template"]
                /\ pc' = "done"
                /\ UNCHANGED <<src, idx>>
           ELSE /\ src' = AppendSrc(src, r.src)
                /\ idx' = idx + 1
                /\ pc' = "convert"
                /\ UNCHANGED ret
    /\ UNCHANGED <<catalog, cfg, tbPos, tbs, dbErrs, loadRet, st, calls>>

\* PgCreateStruct: the loop over tbls is over: return src, nil
CreateStructReturn ==
    /\ pc = "convert"
    /\ idx > Len(tbs)
    /\ ret' = [src |-> src, err |-> "nil"]
    /\ pc' = "done"
    /\ UNCHANGED <<catalog, cfg, tbPos, tbs, dbErrs, loadRet, idx, st, src, calls>>

Next ==
    \/ LoadTableDefQuery
    \/ LoadTableDefRow
    \/ LoadTableDefEnd
    \/ DecodeTypeMap
    \/ TableToStructBegin
    \/ ColToField
    \/ ExecuteStructTmpl
    \/ CreateStructReturn

Spec == Init /\ [][Next]_vars

(***************************************************************************)
(* Properties.                                                             *)
(***************************************************************************)
\* the rules of c whose DB-type list has typ as a member
Matches(c, typ) == {n \in DOMAIN c : typ \in SeqToSet(c[n].DBTypes)}

\* no raw type name is in the list of more than one rule
NoOverlap(c) == \A typ \in DBTypeNames : Cardinality(Matches(c, typ)) <= 1

SameInput(a, b) == a.col.DataType = b.col.DataType /\ a.col.NotNull = b.col.NotNull

\* PgLoadTableDef has returned its table list with a nil error
Loaded == loadRet.done /\ loadRet.err = "nil"

\* PgTableToStruct has run its loop to the end and returns st
StructReturned == pc = "fields" /\ Len(st.Fields) = Len(tbs[idx].Columns)

\* C1 (as claimed): under any configuration, overlapping rules included, two
\* PgConvertType calls with the same raw type and NotNull flag return the same
\* (Go type, nil value) pair.
C1_DeterministicAnyConfig ==
    \A i, j \in DOMAIN calls : SameInput(calls[i], calls[j]) => calls[i].conv = calls[j].conv

\* C1 (amended): under a configuration in which no raw type name is in the
\* DB-type list of more than one rule, two PgConvertType calls with the same
\* raw type and NotNull flag return the same (Go type, nil value) pair.
C1_DeterministicNoOverlap ==
    NoOverlap(cfg) =>
        \A i, j \in DOMAIN calls : SameInput(calls[i], calls[j]) => calls[i].conv = calls[j].conv

\* two calls with the same input under a non-overlapping map of several rules
C1_Witness ==
    /\ NoOverlap(cfg)
    /\ Cardinality(DOMAIN cfg) >= 2
    /\ \E i, j \in DOMAIN calls : i < j /\ SameInput(calls[i], calls[j])

\* C2: when PgCreateStruct returns an error, the byte slice returned with it
\* holds no generated source (nothing of the tables rendered before the
\* failing one).
C2_NoPartialOutput ==
    (pc = "done" /\ ret.err # "nil") => ret.src = <<>>

\* C3: a column whose raw type is in no rule's list gets the "default" rule's
\* NotNullGoType and NotNullNilValue, whether the column is NOT NULL or nullable.
C3_FallbackNotNullPair ==
    \A i \in DOMAIN calls :
        Matches(cfg, calls[i].col.DataType) = {} =>
            calls[i].conv = <<MapGet(cfg, "default").NotNullGoType,
                              MapGet(cfg, "default").NotNullNilValue>>

\* a nullable unmatched column converted under a default rule whose nullable
\* pair differs from its not-null pair
C3_Witness ==
    /\ "default" \in DOMAIN cfg
    /\ cfg["default"].NullableGoType # cfg["default"].NotNullGoType
    /\ \E i \in DOMAIN calls :
         /\ Matches(cfg, calls[i].col.DataType) = {}
         /\ ~calls[i].col.NotNull

\* C4: a column whose raw type is a member of exactly one rule's DB-type list
\* (however that list is ordered, the "default" rule included) gets that rule's
\* not-null pair when NOT NULL and its nullable pair otherwise.
C4_SingleMatchPair ==
    \A i \in DOMAIN calls :
        \A n \in DOMAIN cfg :
            Matches(cfg, calls[i].col.DataType) = {n} =>
                calls[i].conv =
                    IF calls[i].col.NotNull
                    THEN <<cfg[n].NotNullGoType, cfg[n].NotNullNilValue>>
                    ELSE <<cfg[n].NullableGoType, cfg[n].NullableNilValue>>

\* a nullable column matched only by the "default" rule, whose list is written
\* out of order, with other rules present
C4_Witness ==
    /\ Cardinality(DOMAIN cfg) >= 2
    /\ \E i \in DOMAIN calls :
         /\ Matches(cfg, calls[i].col.DataType) = {"default"}
         /\ ~calls[i].col.NotNull
         /\ \E v \in RuleVariants("default") :
              /\ SortStrings(v.DBTypes) = cfg["default"].DBTypes
              /\ v.DBTypes # SortStrings(v.DBTypes)

\* the non-dropped user columns of a relation, as (ordinal, name) pairs
UserColumns(rel) ==
    {<<a.attnum, a.attname>> : a \in {b \in Attributes(rel) : ~b.attisdropped /\ b.attnum > 0}}

\* C5: with no executor error, and for any set of primary-key and unique
\* constraints, the Columns of every loaded table are strictly ascending by
\* ordinal, and every non-dropped user column appears exactly once.
C5_ColumnsOnceAscending ==
    (Loaded /\ dbErrs = {}) =>
        \A t \in DOMAIN loadRet.tbs :
            LET cols == loadRet.tbs[t].Columns
            IN  /\ \A i, j \in DOMAIN cols : i < j => cols[i].FieldOrdinal < cols[j].FieldOrdinal
                /\ {<<cols[i].FieldOrdinal, cols[i].Name>> : i \in DOMAIN cols}
                       = UserColumns(loadRet.tbs[t].Name)
                /\ Len(cols) = Cardinality(UserColumns(loadRet.tbs[t].Name))

\* C6: PgLoadTableDef returns an error whenever the executor has failed at any
\* point of the load (query, scan, or row iteration ended by an error).
C6_ExecutorErrorReported ==
    (loadRet.done /\ dbErrs # {}) => loadRet.err # "nil"

\* C7: PgTableToStruct fails with an error when a column name yields an empty
\* or invalid identifier: it neither crashes on such a column nor builds a
\* field with an empty or invalid name.
C7_NoEmptyFieldName ==
    /\ ~(pc = "panic" /\ st.TableName = tbs[idx].Name)
    /\ \A i \in DOMAIN st.Fields : ValidIdent(st.Fields[i].Name)

\* C8: PgTableToStruct makes one field per column in column order: the i-th
\* field's Col is the i-th column, and the returned struct has as many fields
\* as the table has columns.
C8_FieldPerColumn ==
    pc = "fields" =>
        /\ Len(st.Fields) <= Len(tbs[idx].Columns)
        /\ \A i \in DOMAIN st.Fields : st.Fields[i].Col = tbs[idx].Columns[i]

\* a struct returned for a table of several columns whose primary key is not
\* the first column alone, under a map of several rules
C8_Witness ==
    /\ StructReturned
    /\ Len(st.Fields) >= 2
    /\ Cardinality(DOMAIN cfg) >= 2
    /\ \E i \in DOMAIN st.Fields : i > 1 /\ st.Fields[i].Col.IsPrimaryKey

\* what identifies a line of the output: its kind, and the table or column it is for
LineOf(l) ==
    CASE l.kind = "comment" -> <<"comment", l.TableName>>
      [] l.kind = "field"   -> <<"field", l.Col>>
      [] OTHER              -> <<l.kind>>

\* the lines of the block of table t
BlockOf(t) ==
    << <<"blank">>, <<"comment", t.Name>>, <<"type">> >>
    \o [i \in DOMAIN t.Columns |-> <<"field", t.Columns[i].Name>>]
    \o << <<"close">> >>

RECURSIVE BlocksOf(_)
BlocksOf(tables) ==
    IF tables = <<>> THEN <<>> ELSE BlockOf(Head(tables)) \o BlocksOf(Tail(tables))

\* C9: on success the returned bytes are the blocks of the tables, one block
\* per table, in the order PgLoadTableDef returned them.
C9_BlocksInLoadOrder ==
    (pc = "done" /\ ret.err = "nil") =>
        [i \in DOMAIN ret.src |-> LineOf(ret.src[i])] = BlocksOf(loadRet.tbs)

\* a successful run over two tables
C9_Witness ==
    /\ pc = "done"
    /\ ret.err = "nil"
    /\ Len(loadRet.tbs) >= 2

\* the primary key constraint of a relation, if any
PrimaryKeys(rel) == {ct \in Constraints(cons, rel) : ct.contype = "p"}

\* C10: in a table with a composite primary key every loaded Column that
\* belongs to the key has IsPrimaryKey true, and every other column has it false.
C10_CompositeKeyFlag ==
    Loaded =>
        \A t \in DOMAIN loadRet.tbs :
            \A pk \in PrimaryKeys(loadRet.tbs[t].Name) :
                Cardinality(pk.conkey) >= 2 =>
                    \A i \in DOMAIN loadRet.tbs[t].Columns :
                        loadRet.tbs[t].Columns[i].IsPrimaryKey
                            = (loadRet.tbs[t].Columns[i].FieldOrdinal \in pk.conkey)

====
